---- MODULE Spec2Model ----
(***************************************************************************)
(* SimpleHeap of pathfinding/core/heap.py: the open list of an A*-style    *)
(* search.  A binary min-heap (heapq) of tuples                            *)
(*     (f, heap_order, identity fields...)                                 *)
(* over nodes owned by a Graph, a Grid or a World, with lazy deletion of   *)
(* the entries whose node is closed.  The search driver (the finder) is    *)
(* modelled by its interface: it revises a node's f and pushes it, marks   *)
(* nodes closed, and calls pop_node / remove_node.                         *)
(***************************************************************************)
EXTENDS Integers, Sequences, FiniteSets, TLC

VARIABLES
    phase,          \* "new": before SimpleHeap(node, grid); "ready"; "failed"
    grid,           \* self.grid: the container kind, "unset" before __init__
    open_list,      \* self.open_list: the heapq array of node tuples
    number_pushed,  \* self.number_pushed
    error,          \* the exception that left the constructor, or "none"
    f,              \* node.f of every node of the container
    closed,         \* node.closed of every node of the container
    opened,         \* node.opened: the nodes the driver has put on the heap
    dirty,          \* the node whose f the driver revised and has not pushed yet
    start,          \* the node the heap was constructed with
    popped,         \* TRUE when the last heap operation was a pop_node
    ret,            \* the value returned by that pop_node
    retTuple,       \* the node tuple through which ret was returned
    skipped,        \* entries that pop_node extracted and discarded
    prev,           \* the value returned by the pop_node before it, when
                    \* no push came in between
    removed,        \* the node last invalidated by remove_node, until it is
                    \* pushed or closed
    extracted,      \* entries taken out of open_list by all pop_node calls
    log,            \* the node of every entry ever stored, by heap_order
    returned,       \* the nodes returned by pop_node so far
    solo,           \* progress through the single-start scenario
    scen            \* progress through the revision scenario A(5), B(3), A -> 2

vars == <<phase, grid, open_list, number_pushed, error, f, closed, opened,
          dirty, start, popped, ret, retTuple, skipped, prev, removed,
          extracted, log, returned, solo, scen>>

(***************************************************************************)
(* Bounds and universes                                                     *)
(***************************************************************************)
MaxPushed == 3

Nodes == {1, 2}
FVals == {2, 3, 5}
None == 0
Kinds == {"Graph", "Grid", "World", "Other"}

(***************************************************************************)
(* Nodes: identity fields per container kind.  A Graph node has a node_id, *)
(* a Grid node has x and y, a World node has x, y and grid_id; the nodes   *)
(* of a World lie in different grids at the same (x, y).                   *)
(***************************************************************************)
NodeId(n) == 3 - n

NodeX(kind, n) == IF kind = "World" THEN 0 ELSE (3 - n) % 2

NodeY(kind, n) == IF kind = "World" THEN 0 ELSE (3 - n) \div 2

NodeGridId(n) == n % 2

\* Graph.node(node_id)
GraphNode(id) == CHOOSE n \in Nodes : NodeId(n) = id

\* Grid.node(x, y)
GridNode(x, y) ==
    CHOOSE n \in Nodes : NodeX("Grid", n) = x /\ NodeY("Grid", n) = y

\* World.grids[grid_id].node(x, y)
WorldNode(gid, x, y) ==
    CHOOSE n \in Nodes :
        NodeGridId(n) = gid /\ NodeX("World", n) = x /\ NodeY("World", n) = y

(***************************************************************************)
(* _get_node_tuple                                                          *)
(***************************************************************************)
AssertionFailed == <<"AssertionError">>

\* _get_node_tuple falling back to the Grid scheme instead of asserting.
GetNodeTupleDefault(kind, fv, n, heap_order) ==
    IF kind = "Graph" THEN <<fv[n], heap_order, NodeId(n)>>
    ELSE IF kind = "World"
    THEN <<fv[n], heap_order, NodeX(kind, n), NodeY(kind, n), NodeGridId(n)>>
    ELSE <<fv[n], heap_order, NodeX(kind, n), NodeY(kind, n)>>

GetNodeTuple(kind, fv, n, heap_order) ==
    IF kind = "Graph" THEN <<fv[n], heap_order, NodeId(n)>>
    ELSE IF kind = "Grid"
    THEN <<fv[n], heap_order, NodeX(kind, n), NodeY(kind, n)>>
    ELSE IF kind = "World"
    THEN <<fv[n], heap_order, NodeX(kind, n), NodeY(kind, n), NodeGridId(n)>>
    ELSE AssertionFailed

\* The lookup of pop_node with the coordinates of a Grid tuple swapped.
TupleNodeSwapXY(kind, t) ==
    IF kind = "Graph" THEN GraphNode(t[3])
    ELSE IF kind = "Grid" THEN GridNode(t[4], t[3])
    ELSE WorldNode(t[5], t[3], t[4])

\* The lookup of pop_node: the node a tuple's identity fields resolve to.
TupleNode(kind, t) ==
    IF kind = "Graph" THEN GraphNode(t[3])
    ELSE IF kind = "Grid" THEN GridNode(t[3], t[4])
    ELSE WorldNode(t[5], t[3], t[4])

(***************************************************************************)
(* Python's tuple comparison and heapq                                      *)
(***************************************************************************)
RECURSIVE TupleLessFrom(_, _, _)
TupleLessFrom(a, b, i) ==
    IF i > Len(a) \/ i > Len(b) THEN Len(a) < Len(b)
    ELSE IF a[i] = b[i] THEN TupleLessFrom(a, b, i + 1)
    ELSE a[i] < b[i]

\* a < b on tuples: lexicographic, the first differing field decides.
TupleLess(a, b) == TupleLessFrom(a, b, 1)

\* heapq._siftdown(heap, startpos, pos); positions are 0-based as in heapq.
RECURSIVE SiftDownLoop(_, _, _, _)
SiftDownLoop(heap, startpos, pos, newitem) ==
    IF pos > startpos
    THEN LET parentpos == (pos - 1) \div 2
             parent == heap[parentpos + 1]
         IN  IF TupleLess(newitem, parent)
             THEN SiftDownLoop([heap EXCEPT ![pos + 1] = parent],
                               startpos, parentpos, newitem)
             ELSE [heap EXCEPT ![pos + 1] = newitem]
    ELSE [heap EXCEPT ![pos + 1] = newitem]

SiftDown(heap, startpos, pos) ==
    SiftDownLoop(heap, startpos, pos, heap[pos + 1])

\* heapq._siftup(heap, pos)
RECURSIVE SiftUpLoop(_, _, _, _, _)
SiftUpLoop(heap, startpos, pos, childpos, newitem) ==
    IF childpos < Len(heap)
    THEN LET rightpos == childpos + 1
             c == IF rightpos < Len(heap)
                     /\ ~TupleLess(heap[childpos + 1], heap[rightpos + 1])
                  THEN rightpos ELSE childpos
         IN  SiftUpLoop([heap EXCEPT ![pos + 1] = heap[c + 1]],
                        startpos, c, 2 * c + 1, newitem)
    ELSE SiftDown([heap EXCEPT ![pos + 1] = newitem], startpos, pos)

SiftUp(heap, pos) == SiftUpLoop(heap, pos, pos, 2 * pos + 1, heap[pos + 1])

\* list.append in place of heapq.heappush.
HeapPushAppend(heap, item) == Append(heap, item)

\* heapq.heappushpop in place of heapq.heappush.
HeapPushPop(heap, item) ==
    IF heap # <<>> /\ TupleLess(heap[1], item)
    THEN SiftUp([heap EXCEPT ![1] = item], 0)
    ELSE heap

\* heapq.heappush(heap, item)
HeapPush(heap, item) == SiftDown(Append(heap, item), 0, Len(heap))

\* list.pop(0) in place of heapq.heappop.
HeapPopFront(heap) == [item |-> Head(heap), heap |-> Tail(heap)]

\* heapq.heappop(heap): the smallest item and the heap without it.
HeapPop(heap) ==
    LET lastelt == heap[Len(heap)]
        rest == SubSeq(heap, 1, Len(heap) - 1)
    IN  IF rest # <<>>
        THEN [item |-> rest[1], heap |-> SiftUp([rest EXCEPT ![1] = lastelt], 0)]
        ELSE [item |-> lastelt, heap |-> rest]

(***************************************************************************)
(* pop_node: the while loop                                                 *)
(***************************************************************************)
\* pop_node without the test of node.closed.
PopLoopNoClosedCheck(kind, cl, heap, nskipped) ==
    IF heap # <<>>
    THEN LET r == HeapPop(heap)
         IN  [node |-> TupleNode(kind, r.item), tuple |-> r.item,
              heap |-> r.heap, skipped |-> nskipped]
    ELSE [node |-> None, tuple |-> <<>>, heap |-> heap, skipped |-> nskipped]

\* pop_node giving up at the first closed entry instead of continuing.
PopLoopStopAtClosed(kind, cl, heap, nskipped) ==
    IF heap # <<>>
    THEN LET r == HeapPop(heap)
             node == TupleNode(kind, r.item)
         IN  IF ~cl[node]
             THEN [node |-> node, tuple |-> r.item, heap |-> r.heap,
                   skipped |-> nskipped]
             ELSE [node |-> None, tuple |-> <<>>, heap |-> r.heap,
                   skipped |-> nskipped + 1]
    ELSE [node |-> None, tuple |-> <<>>, heap |-> heap, skipped |-> nskipped]

\* pop_node returning the least unclosed entry without taking it out.
RECURSIVE PopLoopPeek(_, _, _, _)
PopLoopPeek(kind, cl, heap, nskipped) ==
    IF heap # <<>>
    THEN LET r == HeapPop(heap)
             node == TupleNode(kind, r.item)
         IN  IF ~cl[node]
             THEN [node |-> node, tuple |-> r.item, heap |-> heap,
                   skipped |-> nskipped]
             ELSE PopLoopPeek(kind, cl, r.heap, nskipped + 1)
    ELSE [node |-> None, tuple |-> <<>>, heap |-> heap, skipped |-> nskipped]

RECURSIVE PopLoop(_, _, _, _)
PopLoop(kind, cl, heap, nskipped) ==
    IF heap # <<>>
    THEN LET r == HeapPop(heap)
             node == TupleNode(kind, r.item)
         IN  IF ~cl[node]
             THEN [node |-> node, tuple |-> r.item, heap |-> r.heap,
                   skipped |-> nskipped]
             ELSE PopLoop(kind, cl, r.heap, nskipped + 1)
    ELSE [node |-> None, tuple |-> <<>>, heap |-> heap, skipped |-> nskipped]

\* A length that counts only the entries of unclosed nodes.
SizeLive ==
    Len(SelectSeq(open_list, LAMBDA t : ~closed[TupleNode(grid, t)]))

\* __len__
Size == Len(open_list)

(***************************************************************************)
(* Initial state: a clean container (no node closed or opened, every cost   *)
(* at its initial estimate), no heap constructed yet.                       *)
(***************************************************************************)
Init ==
    /\ phase = "new"
    /\ grid = "unset"
    /\ open_list = <<>>
    /\ number_pushed = 0
    /\ error = "none"
    /\ f = [n \in Nodes |-> 5]
    /\ closed = [n \in Nodes |-> FALSE]
    /\ opened = {}
    /\ dirty = None
    /\ start = None
    /\ popped = FALSE
    /\ ret = None
    /\ retTuple = <<>>
    /\ skipped = 0
    /\ prev = None
    /\ removed = None
    /\ extracted = 0
    /\ log = <<>>
    /\ returned = {}
    /\ solo = 0
    /\ scen = [stage |-> 0, b |-> None]

ScenOff == [stage |-> -1, b |-> None]

NoPop ==
    /\ popped' = FALSE
    /\ ret' = None
    /\ retTuple' = <<>>
    /\ skipped' = 0
    /\ prev' = None

(***************************************************************************)
(* SimpleHeap(node, grid)                                                   *)
(***************************************************************************)
Construct(node, kind) ==
    /\ phase = "new"
    /\ dirty \in {None, node}
    /\ grid' = kind
    /\ LET t == GetNodeTuple(kind, f, node, 0)
       IN  IF t = AssertionFailed
           THEN /\ phase' = "failed"
                /\ error' = "AssertionError"
                /\ UNCHANGED <<open_list, opened, start, solo, scen, dirty,
                               log>>
           ELSE /\ phase' = "ready"
                /\ open_list' = <<t>>
                /\ opened' = {node}
                /\ start' = node
                /\ log' = <<node>>
                /\ dirty' = None
                /\ solo' = 1
                /\ scen' = IF f[node] = 5 THEN [stage |-> 1, b |-> None]
                           ELSE ScenOff
                /\ UNCHANGED error
    /\ UNCHANGED <<number_pushed, f, closed, popped, ret, retTuple, skipped,
                   prev, removed, extracted, returned>>

(***************************************************************************)
(* push_node(node)                                                          *)
(***************************************************************************)
\* push_node building its tuple with the constant heap_order 0.
PushNodeOrderZero(node) ==
    /\ phase = "ready"
    /\ number_pushed < MaxPushed
    /\ dirty \in {None, node}
    /\ ~closed[node]
    /\ number_pushed' = number_pushed + 1
    /\ open_list' = HeapPush(open_list,
                             GetNodeTuple(grid, f, node, 0))
    /\ opened' = opened \cup {node}
    /\ log' = Append(log, node)
    /\ dirty' = None
    /\ NoPop
    /\ removed' = IF removed = node THEN None ELSE removed
    /\ solo' = -1
    /\ scen' = IF scen.stage = 2 /\ node = scen.b
               THEN [scen EXCEPT !.stage = 3]
               ELSE IF scen.stage = 5 /\ node = start
               THEN [scen EXCEPT !.stage = 6]
               ELSE ScenOff
    /\ UNCHANGED <<phase, grid, error, f, closed, start, extracted,
                   returned>>

\* push_node building its tuple before the counter is incremented.
PushNodeStaleOrder(node) ==
    /\ phase = "ready"
    /\ number_pushed < MaxPushed
    /\ dirty \in {None, node}
    /\ ~closed[node]
    /\ number_pushed' = number_pushed + 1
    /\ open_list' = HeapPush(open_list,
                             GetNodeTuple(grid, f, node, number_pushed))
    /\ opened' = opened \cup {node}
    /\ log' = Append(log, node)
    /\ dirty' = None
    /\ NoPop
    /\ removed' = IF removed = node THEN None ELSE removed
    /\ solo' = -1
    /\ scen' = IF scen.stage = 2 /\ node = scen.b
               THEN [scen EXCEPT !.stage = 3]
               ELSE IF scen.stage = 5 /\ node = start
               THEN [scen EXCEPT !.stage = 6]
               ELSE ScenOff
    /\ UNCHANGED <<phase, grid, error, f, closed, start, extracted,
                   returned>>

PushNode(node) ==
    /\ phase = "ready"
    /\ number_pushed < MaxPushed
    /\ dirty \in {None, node}
    /\ ~closed[node]
    /\ number_pushed' = number_pushed + 1
    /\ open_list' = HeapPush(open_list,
                             GetNodeTuple(grid, f, node, number_pushed + 1))
    /\ opened' = opened \cup {node}
    /\ log' = Append(log, node)
    /\ dirty' = None
    /\ NoPop
    /\ removed' = IF removed = node THEN None ELSE removed
    /\ solo' = -1
    /\ scen' = IF scen.stage = 2 /\ node = scen.b
               THEN [scen EXCEPT !.stage = 3]
               ELSE IF scen.stage = 5 /\ node = start
               THEN [scen EXCEPT !.stage = 6]
               ELSE ScenOff
    /\ UNCHANGED <<phase, grid, error, f, closed, start, extracted,
                   returned>>

(***************************************************************************)
(* pop_node()                                                               *)
(***************************************************************************)
PopNode ==
    /\ phase = "ready"
    /\ dirty = None
    /\ LET r == PopLoop(grid, closed, open_list, 0)
       IN  /\ open_list' = r.heap
           /\ ret' = r.node
           /\ retTuple' = r.tuple
           /\ skipped' = r.skipped
           /\ extracted' = extracted + r.skipped
                           + (IF r.node # None THEN 1 ELSE 0)
    /\ popped' = TRUE
    /\ returned' = returned \cup ({ret'} \ {None})
    /\ prev' = ret
    /\ solo' = IF solo \in {1, 2} THEN solo + 1 ELSE -1
    /\ scen' = IF scen.stage \in {6, 7, 8} THEN [scen EXCEPT !.stage = @ + 1]
               ELSE IF scen.stage = 9 THEN scen
               ELSE ScenOff
    /\ UNCHANGED <<phase, grid, number_pushed, error, f, closed, opened,
                   dirty, start, removed, log>>

(***************************************************************************)
(* remove_node(node, f): `pass`                                             *)
(***************************************************************************)
HasEntry(node, fv) ==
    \E i \in 1..Len(open_list) :
        /\ TupleNode(grid, open_list[i]) = node
        /\ open_list[i][1] = fv

\* remove_node taking the matching entries out of open_list.
RemoveNodeEffective(node, fv) ==
    /\ phase = "ready"
    /\ open_list' = SelectSeq(open_list, LAMBDA t :
                        ~(TupleNode(grid, t) = node /\ t[1] = fv))
    /\ removed' = IF HasEntry(node, fv) /\ ~closed[node] THEN node ELSE removed
    /\ solo' = -1
    /\ scen' = IF scen.stage = 3 /\ node = start /\ fv = 5
               THEN [scen EXCEPT !.stage = 4]
               ELSE ScenOff
    /\ UNCHANGED <<phase, grid, number_pushed, error, f, closed,
                   opened, dirty, start, popped, ret, retTuple, skipped, prev,
                   extracted, log, returned>>

RemoveNode(node, fv) ==
    /\ phase = "ready"
    /\ UNCHANGED <<phase, grid, open_list, number_pushed, error, f, closed,
                   opened, dirty, start, popped, ret, retTuple, skipped, prev,
                   extracted, log, returned>>
    /\ removed' = IF HasEntry(node, fv) /\ ~closed[node] THEN node ELSE removed
    /\ solo' = -1
    /\ scen' = IF scen.stage = 3 /\ node = start /\ fv = 5
               THEN [scen EXCEPT !.stage = 4]
               ELSE ScenOff

(***************************************************************************)
(* The driver: it estimates or lowers the f of an unclosed node and then    *)
(* pushes it (push_node, or remove_node and push_node; the start node goes  *)
(* to the constructor), and it marks nodes it has opened closed.            *)
(***************************************************************************)
SetF(node, fv) ==
    /\ phase \in {"new", "ready"}
    /\ dirty = None
    /\ ~closed[node]
    /\ fv < f[node]
    /\ number_pushed < MaxPushed
    /\ f' = [f EXCEPT ![node] = fv]
    /\ dirty' = node
    /\ NoPop
    /\ solo' = IF phase = "new" THEN solo ELSE -1
    /\ scen' = IF phase = "new" THEN scen
               ELSE IF scen.stage = 1 /\ node # start /\ fv = 3
               THEN [stage |-> 2, b |-> node]
               ELSE IF scen.stage = 4 /\ node = start /\ fv = 2
               THEN [scen EXCEPT !.stage = 5]
               ELSE ScenOff
    /\ UNCHANGED <<phase, grid, open_list, number_pushed, error, closed,
                   opened, start, removed, extracted, log, returned>>

Close(node) ==
    /\ phase = "ready"
    /\ dirty = None
    /\ node \in opened
    /\ ~closed[node]
    /\ closed' = [closed EXCEPT ![node] = TRUE]
    /\ removed' = IF removed = node THEN None ELSE removed
    /\ solo' = IF solo = 1 THEN -1 ELSE solo
    /\ scen' = IF scen.stage >= 6 /\ popped /\ node = ret THEN scen
               ELSE ScenOff
    /\ UNCHANGED <<phase, grid, open_list, number_pushed, error, f, opened,
                   dirty, start, popped, ret, retTuple, skipped, prev,
                   extracted, log, returned>>

Next ==
    \/ \E n \in Nodes, k \in Kinds : Construct(n, k)
    \/ \E n \in Nodes : PushNode(n)
    \/ PopNode
    \/ \E n \in Nodes, fv \in FVals : RemoveNode(n, fv)
    \/ \E n \in Nodes, fv \in FVals : SetF(n, fv)
    \/ \E n \in Nodes : Close(n)

Spec == Init /\ [][Next]_vars

(***************************************************************************)
(* State functions used by the properties                                   *)
(***************************************************************************)
EntryNode(i) == TupleNode(grid, open_list[i])

EntriesFor(n) == {i \in 1..Len(open_list) : EntryNode(i) = n}

LiveEntries == {i \in 1..Len(open_list) : ~closed[EntryNode(i)]}

LiveNodes == {n \in Nodes : ~closed[n] /\ EntriesFor(n) # {}}

\* The entry that precedes every other live entry in tuple order.
MinLive ==
    CHOOSE i \in LiveEntries :
        \A j \in LiveEntries : j = i \/ TupleLess(open_list[i], open_list[j])

\* Closed entries that precede the tuple t in tuple order.
ClosedBefore(t) ==
    {i \in 1..Len(open_list) :
        closed[EntryNode(i)] /\ TupleLess(open_list[i], t)}

Recognized == {"Graph", "Grid", "World"}

(***************************************************************************)
(* Properties                                                               *)
(***************************************************************************)

\* C1 (bounded retention): an unclosed node never has more than two entries
\* physically stored in open_list, however often it is re-pushed.
C1_BoundedRetention ==
    phase = "ready" =>
        \A n \in Nodes : ~closed[n] => Cardinality(EntriesFor(n)) <= 2

\* C2 (remove effectiveness): a pop_node never returns the node that
\* remove_node invalidated, as long as that node was neither pushed again nor
\* marked closed since.
C2_RemoveEffective ==
    [][PopNode => (ret' = None \/ ret' # removed)]_vars

\* C3 (ordering): of two successive pop_node calls with no push in between,
\* the node returned second has an f not below the f of the node returned
\* first.
C3_Ordering ==
    (popped /\ prev # None /\ ret # None) => f[prev] <= f[ret]

\* C4 (tie-break stability): when pop_node returns a node, every entry still
\* stored that has the same f and belongs to another, unclosed node was pushed
\* later (has a larger heap_order), whatever the identity fields are.
C4_TieBreak ==
    (popped /\ ret # None) =>
        \A i \in 1..Len(open_list) :
            (/\ open_list[i][1] = retTuple[1]
             /\ EntryNode(i) # ret
             /\ ~closed[EntryNode(i)])
            => retTuple[2] < open_list[i][2]

\* C4 witness: a node was returned ahead of an equal-f entry of another
\* unclosed node although that entry has the smaller identity fields.
C4_Witness ==
    /\ popped
    /\ ret # None
    /\ \E i \in 1..Len(open_list) :
        /\ open_list[i][1] = retTuple[1]
        /\ EntryNode(i) # ret
        /\ ~closed[EntryNode(i)]
        /\ TupleLess(SubSeq(open_list[i], 3, Len(open_list[i])),
                     SubSeq(retTuple, 3, Len(retTuple)))

\* C5 (exhaustion signal): a pop_node called when every stored entry belongs
\* to a closed node (or nothing is stored) returns None and raises nothing.
C5_Exhaustion ==
    [][(PopNode /\ LiveEntries = {})
        => (ret' = None /\ error' = "none" /\ phase' = "ready")]_vars

\* C5 witness: a pop_node returned None on a heap that held entries.
C5_Witness == popped /\ ret = None /\ skipped > 0

\* C6 (revision scenario): after A pushed at 5, B pushed at 3, remove_node(A, 5),
\* A.f = 2 and push_node(A), the pops return A (f = 2), then B (f = 3), and no
\* later pop returns A through its f = 5 entry.
C6_RevisionScenario ==
    /\ scen.stage = 7 => (ret = start /\ f[start] = 2 /\ retTuple[1] = 2)
    /\ scen.stage = 8 => (ret = scen.b /\ f[scen.b] = 3)
    /\ scen.stage = 9 => ~(ret = start /\ retTuple[1] = 5)

\* C7 (single-start scenario): constructed with an unclosed start node and
\* never pushed to, the first pop_node returns the start node and the next one
\* returns None, closed in between or not.
C7_SingleStart ==
    /\ solo = 2 => (popped /\ ret = start)
    /\ solo = 3 => (popped /\ ret = None)

\* C7 witness: the second pop has returned None with the start node unclosed.
C7_Witness == solo = 3 /\ ret = None /\ ~closed[start]

\* C8 (pop skips closed nodes): pop_node returns None exactly when no stored
\* entry has an unclosed node; otherwise it returns the unclosed node of the
\* least such entry, having discarded exactly the closed entries before it.
C8_PopSkipsClosed ==
    [][PopNode =>
        IF LiveEntries = {}
        THEN ret' = None
        ELSE /\ ret' # None
             /\ ~closed[ret']
             /\ retTuple' = open_list[MinLive]
             /\ ret' = EntryNode(MinLive)
             /\ skipped' = Cardinality(ClosedBefore(open_list[MinLive]))]_vars

\* C8 witness: a pop_node discarded a closed entry and returned a node.
C8_Witness == popped /\ ret # None /\ skipped > 0

\* C9 (size): len is the number of entries physically stored (pushed and not
\* yet extracted), is at least the number of unclosed nodes with an entry,
\* and when it is 0 pop_node returns None.
C9_Size ==
    phase = "ready" =>
        /\ Size = 1 + number_pushed - extracted
        /\ Size >= Cardinality(LiveNodes)
        /\ Size = 0 => PopLoop(grid, closed, open_list, 0).node = None

\* C9 witness: len is positive and pop_node would return None.
C9_Witness ==
    /\ phase = "ready"
    /\ Size > 0
    /\ LiveNodes = {}
    /\ PopLoop(grid, closed, open_list, 0).node = None

\* C10 (unrecognized container): construction over a container that is not a
\* Graph, a Grid or a World ends in an AssertionError, leaves no heap behind
\* and enables no operation.
C10_UnrecognizedContainer ==
    (grid # "unset" /\ grid \notin Recognized) =>
        /\ phase = "failed"
        /\ error = "AssertionError"
        /\ open_list = <<>>
        /\ start = None
        /\ ~ENABLED Next

\* C10 witness: a construction has failed.
C10_Witness == phase = "failed" /\ grid = "Other"

(***************************************************************************)
(* Entries over their whole life, identified by heap_order                  *)
(***************************************************************************)
Range(h) == {h[i] : i \in 1..Len(h)}

\* a < b on the (f, heap_order) prefix of two tuples.
KeyLess(a, b) == a[1] < b[1] \/ (a[1] = b[1] /\ a[2] < b[2])

\* The entry with heap_order k is in open_list.
InList(k) == \E i \in 1..Len(open_list) : open_list[i][2] = k

\* A later entry was stored for the node of the entry with heap_order k.
Superseded(k) == \E j \in (k + 2)..Len(log) : log[j] = log[k + 1]

\* 0 pending, 1 stale, 2 purged.
Rank(k) ==
    IF ~InList(k) THEN 2
    ELSE IF closed[log[k + 1]] \/ Superseded(k) THEN 1
    ELSE 0

\* Every child is not less than its parent (parent of 0-based position p at
\* (p - 1) \div 2, that is of 1-based index i at i \div 2).
HeapOrdered(h) == \A i \in 2..Len(h) : ~KeyLess(h[i], h[i \div 2])

\* The identity fields a tuple of the given kind carries for node n.
IdentityFields(kind, n) ==
    IF kind = "Graph" THEN <<NodeId(n)>>
    ELSE IF kind = "Grid" THEN <<NodeX(kind, n), NodeY(kind, n)>>
    ELSE <<NodeX(kind, n), NodeY(kind, n), NodeGridId(n)>>

\* C11 (lowest f): the node pop_node returns has an f not above the current f
\* of any other unclosed node that has an entry in open_list.
C11_LowestF ==
    (popped /\ ret # None) =>
        \A n \in LiveNodes \ {ret} : f[ret] <= f[n]

\* C12 (insertion order): the start entry has heap_order 0, the n-th push_node
\* stores heap_order n, larger than every stored one; number_pushed is the
\* number of push_node calls; stored entries have pairwise distinct
\* heap_order, so that the (f, heap_order) prefix decides every comparison.
C12_InsertionOrder ==
    [][/\ ((\E n \in Nodes, k \in Kinds : Construct(n, k)) /\ phase' = "ready")
            => (open_list'[1][2] = 0 /\ number_pushed' = 0)
       /\ (\E n \in Nodes : PushNode(n))
            => \E i \in 1..Len(open_list') :
                /\ open_list'[i][2] = Len(log)
                /\ \A j \in 1..Len(open_list') :
                    j # i => open_list'[j][2] < open_list'[i][2]
       /\ phase' = "ready"
            => /\ number_pushed' = Len(log') - 1
               /\ \A i, j \in 1..Len(open_list') :
                    i # j =>
                        /\ open_list'[i][2] # open_list'[j][2]
                        /\ TupleLess(open_list'[i], open_list'[j])
                           = KeyLess(open_list'[i], open_list'[j])]_vars

\* C12 witness: two stored entries of the same node with the same f, which
\* differ in heap_order alone.
C12_Witness ==
    /\ phase = "ready"
    /\ \E i, j \in 1..Len(open_list) :
        /\ i # j
        /\ open_list[i][1] = open_list[j][1]
        /\ EntryNode(i) = EntryNode(j)

\* C13 (push frame): push_node(node) raises number_pushed by one, adds one
\* entry (the node's f, the new counter value, the node's identity), keeps the
\* stored entries and leaves f and closed of every node as they were.
C13_PushFrame ==
    [][\A n \in Nodes : PushNode(n) =>
        /\ number_pushed' = number_pushed + 1
        /\ Len(open_list') = Len(open_list) + 1
        /\ Range(open_list) \subseteq Range(open_list')
        /\ \E t \in Range(open_list') \ Range(open_list) :
            /\ t[1] = f[n]
            /\ t[2] = number_pushed + 1
            /\ SubSeq(t, 3, Len(t)) = IdentityFields(grid, n)
            /\ Range(open_list') = Range(open_list) \cup {t}
        /\ f' = f
        /\ closed' = closed]_vars

\* C13 witness: the entry just pushed has moved to the root of a heap of at
\* least three entries.
C13_Witness ==
    /\ phase = "ready"
    /\ ~popped
    /\ dirty = None
    /\ Len(open_list) >= 3
    /\ number_pushed >= 1
    /\ open_list[1][2] = number_pushed

\* C14 (heap property): open_list is a binary min-heap under the
\* lexicographic order on (f, heap_order).
C14_HeapProperty == HeapOrdered(open_list)

\* C14 witness: a heap of at least three entries, after a pop, that is not a
\* sorted array.
C14_Witness ==
    /\ Len(open_list) >= 3
    /\ extracted > 0
    /\ \E i \in 1..(Len(open_list) - 1) :
        KeyLess(open_list[i + 1], open_list[i])

C16_KeyRoundTrip ==
    phase = "ready" =>
        /\ \A i \in 1..Len(open_list) :
            LET t == open_list[i]
            IN  /\ t[1] \in FVals
                /\ t[2] \in 0..number_pushed
                /\ SubSeq(t, 3, Len(t)) = IdentityFields(grid, log[t[2] + 1])
                /\ EntryNode(i) = log[t[2] + 1]
        /\ (popped /\ ret # None) => ret = log[retTuple[2] + 1]
        /\ \A n \in Nodes, k \in 0..number_pushed :
            TupleNode(grid, GetNodeTuple(grid, f, n, k)) = n

\* C16 witness: in a World, pop_node has returned a node through a pushed
\* tuple while other tuples are stored.
C16_Witness ==
    /\ grid = "World"
    /\ popped
    /\ ret # None
    /\ retTuple[2] > 0
    /\ open_list # <<>>

\* C17 (termination): a pop_node call makes at most len(open_list) iterations,
\* each taking one entry out, and ends with an unclosed node or with None and
\* an empty open_list.
C17_PopTerminates ==
    [][PopNode =>
        LET iters == skipped' + (IF ret' # None THEN 1 ELSE 0)
        IN  /\ iters <= Len(open_list)
            /\ Len(open_list') = Len(open_list) - iters
            /\ ret' = None => open_list' = <<>>
            /\ ret' # None => ~closed[ret']]_vars

\* C17 witness: a pop_node call that went through at least two iterations
\* discarding entries.
C17_Witness == popped /\ skipped >= 2

\* C18 (returned once): a pop_node called when every node returned before is
\* closed does not return any of them again.
C18_ReturnedOnce ==
    [][(PopNode /\ \A n \in returned : closed[n]) => ret' \notin returned]_vars

\* C18 witness: a pop_node discarded an entry of a node returned before and
\* closed since, and returned another node.
C18_Witness ==
    /\ popped
    /\ ret # None
    /\ skipped > 0
    /\ returned \ {ret} # {}
    /\ \A n \in returned \ {ret} : closed[n] /\ n \in Range(log)
    /\ ~closed[ret]

\* C19 (pop frame): pop_node takes out the least entry with an unclosed node
\* and the entries before it, keeps every other entry, leaves number_pushed, f
\* and closed alone, and leaves open_list empty when it returns None.
C19_PopFrame ==
    [][PopNode =>
        /\ IF LiveEntries = {}
           THEN open_list' = <<>> /\ ret' = None
           ELSE LET kept == {t \in Range(open_list) :
                                TupleLess(open_list[MinLive], t)}
                IN  /\ Range(open_list') = kept
                    /\ Len(open_list') = Cardinality(kept)
        /\ ret' = None => Len(open_list') = 0
        /\ number_pushed' = number_pushed
        /\ f' = f
        /\ closed' = closed]_vars

\* C19 witness: a pop_node discarded a closed entry, returned a node and left
\* entries behind.
C19_Witness == popped /\ ret # None /\ skipped > 0 /\ Len(open_list) >= 1

====
